---- MODULE Spec2Model ----
(***************************************************************************)
(* The token-authenticated HTTP client of src/src/api/auth.js: the module  *)
(* level token pair, the request interceptor that attaches the bearer      *)
(* header, the response interceptor that refreshes on 401 and retries, and *)
(* the login / logout entry points.  Every await of the code is a point    *)
(* where other callbacks of the event loop may run, so each action is one  *)
(* synchronous run of the code between two awaits.                         *)
(***************************************************************************)
EXTENDS Integers, Sequences, FiniteSets, TLC

\* ---------------------------------------------------------------- bounds
MaxReq == 2          \* logical requests in flight through authClient
MaxCount == 3        \* the counters of sends / refresh calls saturate here

\* ------------------------------------------------------------- constants
Unauthorized == 401

Req == 1..MaxReq

Null == "null"
AccessTokens == {"A1", "A2"}
RefreshTokens == {"R1", "R2"}

\* no Authorization entry in config.headers
NoHeader == "<absent>"

\* what the transport can answer to a request: 0 stands for a transport
\* failure (error.response undefined), the others are HTTP statuses
ErrorStatuses == {0, 401, 500}
RefreshStatuses == {0, 200, 401}

Kinds == {"api", "login", "logout"}

\* login() and logout() are issued by the one session owner, caller 1; the
\* other callers are the api wrappers
KindsOf(r) == IF r = 1 THEN Kinds ELSE {"api"}

\* bodies of a 2xx answer, as far as the code looks at them
Bodies == [token : AccessTokens \cup {Null}, refreshToken : RefreshTokens \cup {Null}]
NoBody == [token |-> Null, refreshToken |-> Null]

\* answers to the refresh POST: a 2xx with a body (the token field may be
\* missing), or a non-2xx / transport failure
RefreshResponses ==
    [status : {200}, token : AccessTokens \cup {Null}, refreshToken : RefreshTokens]
    \cup [status : RefreshStatuses \ {200}, token : {Null}, refreshToken : {Null}]
NoResp == [status |-> -1, token |-> Null, refreshToken |-> Null]

NoOutcome == [ok |-> FALSE, status |-> -1, send |-> 0, refresh |-> "none", body |-> NoBody]

\* ------------------------------------------------------------- helpers
\* JavaScript truthiness of a token value: null and "" are falsy
Truthy(x) == x # Null /\ x # ""

\* `Bearer ${authToken}`
Bearer(tok) == "Bearer " \o tok

\* axios resolves on 2xx and rejects otherwise (default validateStatus)
Is2xx(s) == s >= 200 /\ s < 300

Inc(n) == IF n < MaxCount THEN n + 1 ELSE n

\* what a refresh answer is, seen from the server side
RefreshClass(resp) ==
    IF resp = NoResp THEN "none"
    ELSE IF resp.status = 0 THEN "unreachable"
    ELSE IF ~Is2xx(resp.status) THEN "rejected"
    ELSE IF ~Truthy(resp.token) THEN "malformed" ELSE "ok"

RefreshFailed(class) == class \in {"unreachable", "rejected"}

VARIABLES
    authToken,      \* let authToken
    refreshToken,   \* let refreshToken
    pc,             \* where each request is in the pipeline
    kind,           \* which entry point issued it
    retry,          \* originalRequest._retry
    header,         \* config.headers['Authorization']
    sends,          \* HTTP calls made for the request (first send + retries)
    retries,        \* re-issues of the request by the 401 handler
    refreshCount,   \* refresh POSTs issued on behalf of the request
    refreshBody,    \* the refreshToken in the body of its outstanding refresh POST
    refreshResp,    \* the answer its refresh POST got, while the retry is under way
    peer,           \* how a refresh that overlapped its own outstanding one ended
    outcome,        \* what the caller's promise settles with
    lastStatus,     \* the status of the last answer the transport gave the request
    responseData,   \* response.data as the last resolved call returned it to its caller
    answerBody,     \* the body of the 2xx answer the transport gave for that call
    apiToken,       \* let authToken of the single-token auth module
    lastCall,       \* the last accessor a collaborator called
    repeated,       \* that call was the second of the same accessor in a row
    prevCred,       \* the stored tokens as they were before that call
    store,          \* the electron-store of the main process: key -> value
    isAuthenticated,\* let isAuthenticated of the main process
    now,            \* Date.now(), in milliseconds
    hasWindow,      \* a BrowserWindow is open
    mLogin,         \* where the auth-login handler is
    loginResult,    \* what it returned to the renderer
    mLogout,        \* where the auth-logout handler is
    logoutResult,   \* what it returned to the renderer
    mRefresh,       \* where refreshToken() of the main process is
    refreshResult,  \* the token it returned, or that it threw
    mRefreshStatus, \* the status its POST was answered with
    mCheck,         \* where the auth-check-status handler is
    checkResult,    \* what it returned to the renderer
    checkToken,     \* the token getValidToken() gave it for the status call
    checkStatus,    \* the status its status call was answered with
    piReq,          \* the requests going through the client of a PiNetworkAPI
    debugAuth       \* the tokens of the debug auth module and its refreshAuthToken()

\* the state of the shared client and of the requests going through it
authVars == <<authToken, refreshToken, pc, kind, retry, header, sends, retries,
              refreshCount, refreshBody, refreshResp, peer, outcome, lastStatus>>

\* the state of the requests alone
reqVars == <<pc, kind, retry, header, sends, retries, refreshCount, refreshBody,
             refreshResp, peer, outcome, lastStatus>>

\* what the direct calls of the token accessors are observed with
credVars == <<apiToken, lastCall, repeated, prevCred>>

\* the state of the Electron main process
\* refreshToken() of the main process
mainRefreshVars == <<mRefresh, refreshResult, mRefreshStatus>>

\* the auth-check-status handler
mainCheckVars == <<mCheck, checkResult, checkToken, checkStatus>>

mainVars == <<store, isAuthenticated, now, hasWindow, mLogin, loginResult, mLogout,
              logoutResult, mainRefreshVars, mainCheckVars>>

\* the last resolved call, as observed
dataVars == <<responseData, answerBody>>

vars == <<authVars, dataVars, credVars, mainVars, piReq, debugAuth>>

\* (variant) an interceptor that leaves an Authorization entry already on
\* the config alone
AttachAuthorizationKeepExisting(hdr, tok) ==
    IF hdr # NoHeader THEN hdr ELSE IF Truthy(tok) THEN Bearer(tok) ELSE hdr

\* request interceptor: attach the bearer header when a token is stored
AttachAuthorization(hdr, tok) == IF Truthy(tok) THEN Bearer(tok) ELSE hdr

\* (variant) the guard without its test of _retry
ShouldRefreshIgnoringRetry(status, retryFlag, rt) ==
    /\ status # 0
    /\ status = Unauthorized
    /\ Truthy(rt)

\* (variant) the guard without its test of the stored refresh token
ShouldRefreshNoTokenTest(status, retryFlag, rt) ==
    /\ status # 0
    /\ status = Unauthorized
    /\ ~retryFlag

\* (variant) the guard taking a missing error.response for an expired token
ShouldRefreshOnNoResponse(status, retryFlag, rt) ==
    /\ status = 0 \/ status = Unauthorized
    /\ ~retryFlag
    /\ Truthy(rt)

\* (variant) the guard taking every error status for an expired token
ShouldRefreshOnAnyStatus(status, retryFlag, rt) ==
    /\ status # 0
    /\ status >= 400
    /\ ~retryFlag
    /\ Truthy(rt)

\* the guard of the 401 branch of the response interceptor
ShouldRefresh(status, retryFlag, rt) ==
    /\ status # 0
    /\ status = Unauthorized
    /\ ~retryFlag
    /\ Truthy(rt)

\* (variant) the check reading response.token, which axios never sets,
\* instead of response.data.token
RefreshSucceededWrongField(resp) == Is2xx(resp.status) /\ Truthy(Null)

\* the check made on the refresh response before retrying
RefreshSucceeded(resp) == Is2xx(resp.status) /\ Truthy(resp.token)

\* (variant) a clearTokens() that moves the access token into the refresh
\* slot before clearing
clearTokensShifted(at, rt) == <<Null, at>>

\* clearTokens(): the token pair it leaves
clearTokens(at, rt) == <<Null, Null>>

\* setTokens(token, refresh): the token pair it leaves
setTokens(token, refresh) == <<token, refresh>>

\* the token pair the 401 handler leaves after a usable refresh response
TokensAfterRefresh(resp, at, rt) == <<resp.token, rt>>

\* (variant) a refreshAuthToken() that posts the access token
refreshAuthTokenBodyAccess(at, rt) == at

\* refreshAuthToken(): the refreshToken field of the body it posts
refreshAuthTokenBody(at, rt) == rt

\* (variant) a refreshAuthToken() that drops the refresh token it has sent
refreshAuthTokenConsuming(at, rt) == <<at, Null>>

\* refreshAuthToken(): the token pair it leaves when it has issued its POST
refreshAuthToken(at, rt) == <<at, rt>>

\* (variant) a catch block that forgets clearTokens()
TokensAfterRefreshFailureKept(at, rt) == <<at, rt>>

\* the token pair the 401 handler leaves when the refresh POST rejected
TokensAfterRefreshFailure(at, rt) == clearTokens(at, rt)

\* (variant) a login that stores the tokens when either field is there
TokensAfterLoginEither(body, at, rt) ==
    IF Truthy(body.token) \/ Truthy(body.refreshToken)
    THEN setTokens(body.token, body.refreshToken)
    ELSE <<at, rt>>

\* the token pair login leaves after a 2xx answer with this body
TokensAfterLogin(body, at, rt) ==
    IF Truthy(body.token) /\ Truthy(body.refreshToken)
    THEN setTokens(body.token, body.refreshToken)
    ELSE <<at, rt>>

\* (variant) a logout without the clearTokens() of its catch block
AfterCallerNoCatch(k, ok, body, at, rt) ==
    IF k = "login" /\ ok THEN TokensAfterLogin(body, at, rt)
    ELSE IF k = "logout" /\ ok THEN clearTokens(at, rt)
    ELSE <<at, rt>>

\* the token pair after the caller's code that follows its await of
\* authClient: login stores the tokens of a complete 2xx answer, logout
\* clears them whatever happened, the api wrappers touch nothing
AfterCaller(k, ok, body, at, rt) ==
    IF k = "login" /\ ok THEN TokensAfterLogin(body, at, rt)
    ELSE IF k = "logout" THEN clearTokens(at, rt)
    ELSE <<at, rt>>

\* no request issued yet
InitRequests ==
    /\ pc = [r \in Req |-> "idle"]
    /\ kind = [r \in Req |-> "api"]
    /\ retry = [r \in Req |-> FALSE]
    /\ header = [r \in Req |-> NoHeader]
    /\ sends = [r \in Req |-> 0]
    /\ retries = [r \in Req |-> 0]
    /\ refreshCount = [r \in Req |-> 0]
    /\ refreshBody = [r \in Req |-> Null]
    /\ refreshResp = [r \in Req |-> NoResp]
    /\ peer = [r \in Req |-> "none"]
    /\ outcome = [r \in Req |-> NoOutcome]
    /\ lastStatus = [r \in Req |-> -1]
    /\ responseData = NoBody
    /\ answerBody = NoBody

\* what new Store() finds on disk: nothing, the session an earlier run of
\* the application left there, or what the earlier main process
\* (unnamed/part_006) stored under the same name, a token and a user
PersistedStores ==
    {<<>>,
     [authToken |-> "A1", refreshToken |-> "R1", tokenExpiry |-> 600000, user |-> "U1"],
     [authToken |-> "A1", user |-> "U1"]}

\* the main process when main.js has been loaded: the store as it is on
\* disk, no window yet, no handler running
InitMainOn(disk) ==
    /\ store = disk
    /\ isAuthenticated = FALSE
    /\ now = 0
    /\ hasWindow = FALSE
    /\ mLogin = "idle"
    /\ loginResult = "none"
    /\ mLogout = "idle"
    /\ logoutResult = "none"
    /\ mRefresh = "idle"
    /\ refreshResult = "none"
    /\ mRefreshStatus = -1
    /\ mCheck = "idle"
    /\ checkResult = "none"
    /\ checkToken = Null
    /\ checkStatus = -1

\* the first run of the application, with nothing on disk
InitMain == InitMainOn(<<>>)

\* a request of the PiNetworkAPI client that has not been issued
NoPiReq ==
    [pc |-> "idle", kind |-> "api", header |-> NoHeader, sends |-> 0, status |-> -1,
     ok |-> FALSE, token |-> Null]

\* a PiNetworkAPI just constructed
InitPi == piReq = [r \in Req |-> NoPiReq]

\* the debug auth module just loaded: no tokens, no refreshAuthToken()
\* called (pc, result), no POST to the refresh endpoint made (posts, body),
\* no request issued through its authClient (rpc and the fields after it)
NoDebugAuth ==
    [authToken |-> Null, refreshToken |-> Null, pc |-> "idle", result |-> "none",
     posts |-> 0, body |-> Null,
     rpc |-> "idle", kind |-> "api", retry |-> FALSE, header |-> NoHeader,
     ok |-> FALSE, data |-> NoBody]

Init ==
    /\ authToken = Null
    /\ refreshToken = Null
    /\ InitRequests
    /\ InitPi
    /\ apiToken = Null
    /\ lastCall = "none"
    /\ repeated = FALSE
    /\ prevCred = <<Null, Null, Null>>
    /\ InitMain
    /\ debugAuth = NoDebugAuth

\* everything outside the shared client
otherVars == <<credVars, mainVars, piReq, debugAuth>>

\* (variant) an error handler that returns the error instead of rejecting
HandlerResolvesReturned == TRUE

\* the error handler of the response interceptor always ends in
\* Promise.reject(error): the caller's promise never resolves from it
HandlerResolves == FALSE

\* authClient(config) is invoked and the request waits for its interceptor
Issue(r, k) ==
    /\ pc[r] = "idle"
    /\ k \in KindsOf(r)
    /\ pc' = [pc EXCEPT ![r] = "queued"]
    /\ kind' = [kind EXCEPT ![r] = k]
    /\ UNCHANGED <<authToken, refreshToken, retry, header, sends, retries,
                   refreshCount, refreshBody, refreshResp, peer, outcome, lastStatus>>

\* a caller invokes authClient(config): the api wrappers, login(), logout()
Call(r, k) ==
    /\ Issue(r, k)
    /\ UNCHANGED <<dataVars, otherVars>>

\* the request interceptor runs and the request goes to the transport
RequestInterceptor(r) ==
    /\ pc[r] = "queued"
    /\ header' = [header EXCEPT ![r] = AttachAuthorization(header[r], authToken)]
    /\ sends' = [sends EXCEPT ![r] = Inc(@)]
    /\ pc' = [pc EXCEPT ![r] = "inflight"]
    /\ UNCHANGED <<authToken, refreshToken, kind, retry, retries,
                   refreshCount, refreshBody, refreshResp, peer, outcome, lastStatus>>
    /\ UNCHANGED <<dataVars, otherVars>>

\* login() and logout() have code after their await of authClient; the api
\* wrappers only hand on what they get
HasContinuation(k) == k \in {"login", "logout"}

\* the promise of authClient for request r settles, with the stored tokens
\* left as at and rt by the handler: the request's config (headers, _retry)
\* is dropped, and the code of login() or logout() that follows the await
\* is due in a later microtask
Settle(r, ok, status, body, class, at, rt) ==
    /\ outcome' = [outcome EXCEPT ![r] =
                     [ok |-> ok, status |-> status, send |-> sends[r], refresh |-> class,
                      body |-> IF kind[r] = "login" THEN body ELSE NoBody]]
    /\ pc' = [pc EXCEPT ![r] = IF HasContinuation(kind[r]) THEN "settling" ELSE "done"]
    /\ header' = [header EXCEPT ![r] = NoHeader]
    /\ retry' = [retry EXCEPT ![r] = FALSE]
    /\ refreshResp' = [refreshResp EXCEPT ![r] = NoResp]
    /\ authToken' = at
    /\ refreshToken' = rt

\* login() or logout() resumes from its await: login stores the tokens of
\* a complete 2xx answer, logout clears them whether the call resolved or
\* threw; then the caller has its result
Resume(r) ==
    /\ pc[r] = "settling"
    /\ pc' = [pc EXCEPT ![r] = "done"]
    /\ authToken' =
           AfterCaller(kind[r], outcome[r].ok, outcome[r].body, authToken, refreshToken)[1]
    /\ refreshToken' =
           AfterCaller(kind[r], outcome[r].ok, outcome[r].body, authToken, refreshToken)[2]
    /\ outcome' = [outcome EXCEPT ![r].body = NoBody]
    /\ UNCHANGED <<kind, retry, header, sends, retries, refreshCount, refreshBody,
                   refreshResp, peer, lastStatus>>
    /\ UNCHANGED <<dataVars, otherVars>>

\* a 2xx answer reaches the response interceptor, which returns the response
Answered2xx(r, body) ==
    /\ pc[r] = "inflight"
    /\ lastStatus' = [lastStatus EXCEPT ![r] = 200]
    /\ Settle(r, TRUE, 200, body, RefreshClass(refreshResp[r]), authToken, refreshToken)
    /\ UNCHANGED <<kind, sends, retries, refreshCount, refreshBody, peer>>
    /\ UNCHANGED otherVars

\* a 2xx answer: the response interceptor returns the response
ResponseSuccess(r, body) ==
    /\ Answered2xx(r, body)
    /\ kind[r] # "login" => body = NoBody
    /\ UNCHANGED dataVars

\* a rejected request: the error handler of the response interceptor, up to
\* its await of refreshAuthToken() or its Promise.reject(error)
ResponseError(r, status) ==
    /\ pc[r] = "inflight"
    /\ lastStatus' = [lastStatus EXCEPT ![r] = status]
    /\ IF ShouldRefresh(status, retry[r], refreshToken)
       THEN /\ retry' = [retry EXCEPT ![r] = TRUE]
            /\ refreshBody' = [refreshBody EXCEPT ![r] =
                                 refreshAuthTokenBody(authToken, refreshToken)]
            /\ refreshCount' = [refreshCount EXCEPT ![r] = Inc(@)]
            /\ pc' = [pc EXCEPT ![r] = "refreshing"]
            /\ authToken' = refreshAuthToken(authToken, refreshToken)[1]
            /\ refreshToken' = refreshAuthToken(authToken, refreshToken)[2]
            /\ UNCHANGED <<header, refreshResp, outcome>>
       ELSE /\ Settle(r, HandlerResolves, status, NoBody, RefreshClass(refreshResp[r]),
                      authToken, refreshToken)
            /\ UNCHANGED <<refreshBody, refreshCount>>
    /\ UNCHANGED <<kind, sends, retries, peer>>
    /\ UNCHANGED <<dataVars, otherVars>>

\* the 401 handler resumes from its await of refreshAuthToken() with the
\* answer of the refresh POST
RefreshHandled(r, resp) ==
    /\ pc[r] = "refreshing"
    /\ refreshBody' = [refreshBody EXCEPT ![r] = Null]
    /\ peer' = [q \in Req |-> IF q = r THEN "none"
                               ELSE IF pc[q] = "refreshing" /\ peer[q] = "none"
                               THEN RefreshClass(resp) ELSE peer[q]]
    /\ IF Is2xx(resp.status)
       THEN IF RefreshSucceeded(resp)
            THEN /\ authToken' = TokensAfterRefresh(resp, authToken, refreshToken)[1]
                 /\ refreshToken' = TokensAfterRefresh(resp, authToken, refreshToken)[2]
                 /\ header' = [header EXCEPT ![r] = Bearer(authToken')]
                 /\ retries' = [retries EXCEPT ![r] = Inc(@)]
                 /\ refreshResp' = [refreshResp EXCEPT ![r] = resp]
                 /\ pc' = [pc EXCEPT ![r] = "queued"]
                 /\ UNCHANGED <<retry, outcome>>
            ELSE /\ Settle(r, HandlerResolves, Unauthorized, NoBody, RefreshClass(resp),
                           authToken, refreshToken)
                 /\ UNCHANGED retries
       ELSE /\ Settle(r, HandlerResolves, Unauthorized, NoBody, RefreshClass(resp),
                      TokensAfterRefreshFailure(authToken, refreshToken)[1],
                      TokensAfterRefreshFailure(authToken, refreshToken)[2])
            /\ UNCHANGED retries
    /\ UNCHANGED <<kind, sends, refreshCount, lastStatus>>
    /\ UNCHANGED <<dataVars, otherVars>>

\* (variant) the refresh POST sent through authClient: a 401 answered to it
\* passes the response interceptor, which starts another refresh
RefreshRespondIntercepted(r, resp) ==
    IF resp.status = Unauthorized /\ Truthy(refreshToken)
    THEN /\ pc[r] = "refreshing"
         /\ refreshBody' = [refreshBody EXCEPT ![r] = refreshToken]
         /\ refreshCount' = [refreshCount EXCEPT ![r] = Inc(@)]
         /\ UNCHANGED <<authToken, refreshToken, pc, kind, retry, header, sends,
                        retries, refreshResp, peer, outcome, lastStatus>>
         /\ UNCHANGED <<dataVars, otherVars>>
    ELSE RefreshHandled(r, resp)

\* refreshAuthToken(): the POST goes out with the bare transport, so its
\* answer, whatever it is, reaches the awaiting 401 handler directly
RefreshRespond(r, resp) == RefreshHandled(r, resp)

\* a collaborator calls setTokens(token, refresh)
SetTokens(token, refresh) ==
    /\ authToken' = setTokens(token, refresh)[1]
    /\ refreshToken' = setTokens(token, refresh)[2]
    /\ UNCHANGED reqVars
    /\ UNCHANGED <<dataVars, otherVars>>

\* a collaborator calls clearTokens()
ClearTokens ==
    /\ authToken' = clearTokens(authToken, refreshToken)[1]
    /\ refreshToken' = clearTokens(authToken, refreshToken)[2]
    /\ UNCHANGED reqVars
    /\ UNCHANGED <<dataVars, otherVars>>

Next ==
    \/ \E r \in Req, k \in Kinds : Call(r, k)
    \/ \E r \in Req : RequestInterceptor(r)
    \/ \E r \in Req, body \in Bodies : ResponseSuccess(r, body)
    \/ \E r \in Req, status \in ErrorStatuses : ResponseError(r, status)
    \/ \E r \in Req, resp \in RefreshResponses : RefreshRespond(r, resp)
    \/ \E r \in Req : Resume(r)
    \/ \E token \in AccessTokens, refresh \in RefreshTokens : SetTokens(token, refresh)
    \/ ClearTokens

Spec == Init /\ [][Next]_vars

\* (variant) a wrapper that returns nothing of the response
ReturnDataDropped(body) == NoBody

\* the response interceptor returns the response as it is and the caller's
\* function returns response.data
ReturnData(body) == body

\* the same 2xx answer, with the body and what the caller gets of it kept
\* for observation
ResponseSuccessObserved(r, body) ==
    /\ Answered2xx(r, body)
    /\ answerBody' = body
    /\ responseData' = ReturnData(body)

\* the session owner alone: one request at a time through the pipeline,
\* while collaborators set and clear the tokens at any moment
Owner == 1

\* some answer of the transport reaches the request interceptor's chain
TransportAnswers(r) ==
    \/ \E body \in Bodies : ResponseSuccessObserved(r, body)
    \/ \E status \in ErrorStatuses : ResponseError(r, status)

\* some answer to the refresh POST reaches the 401 handler
RefreshAnswers(r) == \E resp \in RefreshResponses : RefreshRespond(r, resp)

NextOwner ==
    \/ \E k \in Kinds : Call(Owner, k)
    \/ RequestInterceptor(Owner)
    \/ TransportAnswers(Owner)
    \/ RefreshAnswers(Owner)
    \/ Resume(Owner)
    \/ \E token \in AccessTokens, refresh \in RefreshTokens : SetTokens(token, refresh)
    \/ ClearTokens

SpecOwner == Init /\ [][NextOwner]_vars

\* every HTTP call issued is eventually answered, a queued request
\* eventually passes the request interceptor, and a caller whose await has
\* settled eventually resumes
FairSpecOwner ==
    /\ SpecOwner
    /\ WF_vars(RequestInterceptor(Owner))
    /\ WF_vars(TransportAnswers(Owner))
    /\ WF_vars(RefreshAnswers(Owner))
    /\ WF_vars(Resume(Owner))

\* ------------------------------------------------------- login() alone
\* login(username, password) is called; the tokens it finds are noted
CallLogin ==
    /\ Issue(Owner, "login")
    /\ prevCred' = <<authToken, refreshToken, apiToken>>
    /\ UNCHANGED <<dataVars, apiToken, lastCall, repeated, mainVars, debugAuth, piReq>>

NextLogin ==
    \/ CallLogin
    \/ RequestInterceptor(Owner)
    \/ TransportAnswers(Owner)
    \/ RefreshAnswers(Owner)
    \/ Resume(Owner)

\* ---------------------------------------------- the token accessors alone
\* setToken(token) of the single-token auth module
setToken(token) == token

\* clearToken() of the single-token auth module
clearToken(tok) == Null

\* a call of an accessor is noted with the tokens it found
Noted(op) ==
    /\ lastCall' = op
    /\ repeated' = (lastCall = op)
    /\ prevCred' = <<authToken, refreshToken, apiToken>>

CallSetTokens(token, refresh) ==
    /\ authToken' = setTokens(token, refresh)[1]
    /\ refreshToken' = setTokens(token, refresh)[2]
    /\ Noted("setTokens")
    /\ UNCHANGED <<reqVars, dataVars, apiToken, mainVars, debugAuth, piReq>>

CallClearTokens ==
    /\ authToken' = clearTokens(authToken, refreshToken)[1]
    /\ refreshToken' = clearTokens(authToken, refreshToken)[2]
    /\ Noted("clearTokens")
    /\ UNCHANGED <<reqVars, dataVars, apiToken, mainVars, debugAuth, piReq>>

CallSetToken(token) ==
    /\ apiToken' = setToken(token)
    /\ Noted("setToken")
    /\ UNCHANGED <<reqVars, dataVars, authToken, refreshToken, mainVars, debugAuth, piReq>>

CallClearToken ==
    /\ apiToken' = clearToken(apiToken)
    /\ Noted("clearToken")
    /\ UNCHANGED <<reqVars, dataVars, authToken, refreshToken, mainVars, debugAuth, piReq>>

\* any tokens may be stored when the accessors are called
InitCred ==
    /\ authToken \in AccessTokens \cup {Null}
    /\ refreshToken \in RefreshTokens \cup {Null}
    /\ apiToken \in AccessTokens \cup {Null}
    /\ InitRequests
    /\ lastCall = "none"
    /\ repeated = FALSE
    /\ prevCred = <<authToken, refreshToken, apiToken>>
    /\ InitMain
    /\ InitPi
    /\ debugAuth = NoDebugAuth

NextCred ==
    \/ \E token \in AccessTokens, refresh \in RefreshTokens : CallSetTokens(token, refresh)
    \/ CallClearTokens
    \/ \E token \in AccessTokens : CallSetToken(token)
    \/ CallClearToken

SpecCred == InitCred /\ [][NextCred]_vars

\* one login() on a client that may hold tokens of an earlier session
SpecLogin == InitCred /\ [][NextLogin]_vars

\* --------------------------------------------- the PiNetworkAPI client
\* getToken() of the single-token auth module
getToken == apiToken

\* (variant) a response interceptor that clears the token on every error
\* status
PiUnauthorizedAnyStatus(status) == status # 0

\* the test of the response interceptor: error.response is there and its
\* status is 401
PiUnauthorized(status) == status # 0 /\ status = Unauthorized

\* a bound method calls this.client: login and register (kind login),
\* logout, or one of the others
PiCall(r, k) ==
    /\ piReq[r].pc = "idle"
    /\ k \in KindsOf(r)
    /\ piReq' = [piReq EXCEPT ![r].pc = "queued", ![r].kind = k]
    /\ UNCHANGED <<authVars, dataVars, credVars, mainVars, debugAuth>>

\* the request interceptor attaches the token of getToken(), if any
PiRequestInterceptor(r) ==
    /\ piReq[r].pc = "queued"
    /\ piReq' = [piReq EXCEPT ![r].pc = "inflight",
                              ![r].header = AttachAuthorization(@, getToken),
                              ![r].sends = Inc(@)]
    /\ UNCHANGED <<authVars, dataVars, credVars, mainVars, debugAuth>>

\* where a request goes when the promise of the client settles: login,
\* register and logout have code after their await
PiSettled(k) == IF HasContinuation(k) THEN "settling" ELSE "done"

\* a 2xx answer passes the response interceptor unchanged; token is
\* response.data.token, which only login and register look at
PiResponseSuccess(r, token) ==
    /\ piReq[r].pc = "inflight"
    /\ piReq[r].kind # "login" => token = Null
    /\ piReq' = [piReq EXCEPT ![r].pc = PiSettled(piReq[r].kind), ![r].status = 200,
                              ![r].ok = TRUE, ![r].token = token]
    /\ UNCHANGED <<authVars, dataVars, credVars, mainVars, debugAuth>>

\* a rejected request: the error handler clears the token on 401 and
\* rejects with the error
PiResponseError(r, status) ==
    /\ piReq[r].pc = "inflight"
    /\ apiToken' = IF PiUnauthorized(status) THEN clearToken(apiToken) ELSE apiToken
    /\ piReq' = [piReq EXCEPT ![r].pc = PiSettled(piReq[r].kind), ![r].status = status,
                              ![r].ok = FALSE]
    /\ UNCHANGED <<authVars, dataVars, lastCall, repeated, prevCred, mainVars, debugAuth>>

\* the stored token after the code that follows the await of the client:
\* login and register store the token of a 2xx answer that has one,
\* logout clears the token whether the call resolved or threw
PiAfterCaller(k, ok, token, tok) ==
    IF k = "login" /\ ok /\ Truthy(token) THEN setToken(token)
    ELSE IF k = "logout" THEN clearToken(tok)
    ELSE tok

\* login, register or logout resumes from its await of the client
PiResume(r) ==
    /\ piReq[r].pc = "settling"
    /\ apiToken' = PiAfterCaller(piReq[r].kind, piReq[r].ok, piReq[r].token, apiToken)
    /\ piReq' = [piReq EXCEPT ![r].pc = "done", ![r].token = Null]
    /\ UNCHANGED <<authVars, dataVars, lastCall, repeated, prevCred, mainVars, debugAuth>>

\* this.client as a template string makes of it: the source text of the
\* function an axios instance is
ClientObject == "function wrap() { [axios instance] }"

\* _bindMethods: a bound function calls the function of the module with
\* this.client in front of the caller's arguments
BoundArguments(args) == <<ClientObject>> \o args

\* api.auth.setToken(token), the bound method: setToken takes its first
\* argument, which is the client, and the caller's token is dropped
PiBoundSetToken(token) ==
    /\ apiToken' = setToken(BoundArguments(<<token>>)[1])
    /\ UNCHANGED <<authVars, dataVars, lastCall, repeated, prevCred, mainVars, debugAuth, piReq>>

\* a collaborator calls setToken(token) of the auth module itself
PiSetToken(token) ==
    /\ apiToken' = setToken(token)
    /\ UNCHANGED <<authVars, dataVars, lastCall, repeated, prevCred, mainVars, debugAuth, piReq>>

\* a collaborator calls clearToken(), of the module or bound: it takes no
\* argument
PiClearToken ==
    /\ apiToken' = clearToken(apiToken)
    /\ UNCHANGED <<authVars, dataVars, lastCall, repeated, prevCred, mainVars, debugAuth, piReq>>

NextPi ==
    \/ \E r \in Req, k \in Kinds : PiCall(r, k)
    \/ \E r \in Req : PiRequestInterceptor(r)
    \/ \E r \in Req, token \in AccessTokens \cup {Null} : PiResponseSuccess(r, token)
    \/ \E r \in Req, status \in ErrorStatuses : PiResponseError(r, status)
    \/ \E r \in Req : PiResume(r)
    \/ \E token \in AccessTokens : PiSetToken(token)
    \/ \E token \in AccessTokens : PiBoundSetToken(token)
    \/ PiClearToken

SpecPi == Init /\ [][NextPi]_vars

\* ------------------------------------------- the Electron main process
MaxTicks == 1        \* the clock advances at most this many times

\* one advance of the clock: five minutes, in milliseconds
TickMs == 5 * 60 * 1000

\* expiresIn of a login answer, in seconds
ExpiresIn == {60, 600}

Undefined == "undefined"

StoreKeys == {"authToken", "refreshToken", "tokenExpiry", "user"}

\* store.get(key)
StoreGet(st, key) == IF key \in DOMAIN st THEN st[key] ELSE Undefined

\* store.set(key, value)
StoreSet(st, key, value) ==
    [k \in DOMAIN st \cup {key} |-> IF k = key THEN value ELSE st[k]]

\* store.delete(key)
StoreDelete(st, key) == [k \in DOMAIN st \ {key} |-> st[k]]

\* the four deletes that clear the stored credentials
StoreCleared(st) ==
    StoreDelete(StoreDelete(StoreDelete(StoreDelete(st,
        "authToken"), "refreshToken"), "tokenExpiry"), "user")

\* not a number: an expiresIn that is missing, and Date.now() + undefined * 1000
NaN == 0 - 1

\* store.set(key, value) of the key the schema types as number throws on
\* the NaN of a missing expiresIn
StoreTakesNumber(value) == value # NaN

\* Date.now() + (expiresIn * 1000), at time t
ExpiryTime(t, expiresIn) == IF expiresIn = NaN THEN NaN ELSE t + expiresIn * 1000

\* JavaScript truthiness of a stored value
Present(x) == x # Undefined /\ x # Null /\ x # ""

\* bodies of a 2xx answer of the login endpoint; any field may be missing
MainLoginBodies ==
    [token : AccessTokens \cup {Null}, refreshToken : RefreshTokens \cup {Null},
     expiresIn : ExpiresIn \cup {NaN}, user : {Null, "U1"}]

\* createWindow(), on 'ready' and on 'activate' with no window open: the
\* authentication state is read off the store
CreateWindow ==
    /\ ~hasWindow
    /\ hasWindow' = TRUE
    /\ isAuthenticated' = Present(StoreGet(store, "authToken"))
    /\ UNCHANGED <<store, now, mLogin, loginResult, mLogout, logoutResult>>
    /\ UNCHANGED <<authVars, dataVars, credVars, piReq, mainRefreshVars, mainCheckVars, debugAuth>>

\* the window is closed and the application stays, as on macOS; handlers
\* that await a remote call go on
CloseWindow ==
    /\ hasWindow
    /\ hasWindow' = FALSE
    /\ UNCHANGED <<store, isAuthenticated, now, mLogin, loginResult, mLogout, logoutResult>>
    /\ UNCHANGED <<authVars, dataVars, credVars, piReq, mainRefreshVars, mainCheckVars, debugAuth>>

\* Date.now() moves on
Tick ==
    /\ now < MaxTicks * TickMs
    /\ now' = now + TickMs
    /\ UNCHANGED <<store, isAuthenticated, mLogin, loginResult, mLogout, logoutResult>>
    /\ UNCHANGED <<hasWindow, authVars, dataVars, credVars, piReq, mainRefreshVars, mainCheckVars, debugAuth>>

\* auth-login is invoked by the renderer: without both fields it returns at once, else it
\* posts to the login endpoint and awaits
MainLoginStart(hasUsername, hasPassword) ==
    /\ hasWindow
    /\ mLogin = "idle"
    /\ IF ~hasUsername \/ ~hasPassword
       THEN /\ mLogin' = "returned"
            /\ loginResult' = "required"
       ELSE /\ mLogin' = "remote"
            /\ loginResult' = "none"
    /\ UNCHANGED <<store, isAuthenticated, now, mLogout, logoutResult>>
    /\ UNCHANGED <<hasWindow, authVars, dataVars, credVars, piReq, mainRefreshVars, mainCheckVars, debugAuth>>

\* the store after a login answer with both tokens
StoreAfterLogin(st, body, t) ==
    LET s1 == StoreSet(st, "authToken", body.token)
        s2 == StoreSet(s1, "refreshToken", body.refreshToken)
        s3 == StoreSet(s2, "tokenExpiry", ExpiryTime(t, body.expiresIn))
    IN  IF Present(body.user) THEN StoreSet(s3, "user", body.user) ELSE s3

\* the store when the login answer has both tokens but no expiresIn:
\* authToken and refreshToken are set, expiryTime is NaN, and store.set
\* throws on it
StoreAfterLoginNoExpiry(st, body) ==
    LET s1 == StoreSet(st, "authToken", body.token)
    IN  StoreSet(s1, "refreshToken", body.refreshToken)

\* what auth-login does with a 2xx answer: without token or refreshToken
\* it returns at once; else it stores the values one by one, and a throw
\* on the way lands in the inner catch, which returns success false
LoginTail(body, st, auth, t) ==
    IF ~Present(body.token) \/ ~Present(body.refreshToken)
    THEN [store |-> st, isAuthenticated |-> auth, result |-> "invalid"]
    ELSE IF ~StoreTakesNumber(ExpiryTime(t, body.expiresIn))
    THEN [store |-> StoreAfterLoginNoExpiry(st, body),
          isAuthenticated |-> auth, result |-> "failed"]
    ELSE [store |-> StoreAfterLogin(st, body, t), isAuthenticated |-> TRUE,
          result |-> "success"]

\* the login endpoint answers 2xx
MainLoginAnswered(body) ==
    /\ mLogin = "remote"
    /\ mLogin' = "returned"
    /\ store' = LoginTail(body, store, isAuthenticated, now).store
    /\ isAuthenticated' =
           LoginTail(body, store, isAuthenticated, now).isAuthenticated
    /\ loginResult' = LoginTail(body, store, isAuthenticated, now).result
    /\ UNCHANGED <<now, mLogout, logoutResult>>
    /\ UNCHANGED <<hasWindow, authVars, dataVars, credVars, piReq, mainRefreshVars, mainCheckVars, debugAuth>>

\* the login call rejects: an error status or a transport failure
MainLoginFailed(status) ==
    /\ mLogin = "remote"
    /\ mLogin' = "returned"
    /\ loginResult' = "failed"
    /\ UNCHANGED <<store, isAuthenticated, now, mLogout, logoutResult>>
    /\ UNCHANGED <<hasWindow, authVars, dataVars, credVars, piReq, mainRefreshVars, mainCheckVars, debugAuth>>

\* the renderer has the handler's answer and may invoke it again
MainLoginCollected ==
    /\ mLogin = "returned"
    /\ mLogin' = "idle"
    /\ UNCHANGED <<store, isAuthenticated, now, loginResult, mLogout, logoutResult>>
    /\ UNCHANGED <<hasWindow, authVars, dataVars, credVars, piReq, mainRefreshVars, mainCheckVars, debugAuth>>

\* (variant) a handler without the inner try/catch around the remote call:
\* a failed call lands in the outer catch
LogoutTailStrict(remoteOk, st, auth) ==
    IF remoteOk
    THEN [store |-> StoreCleared(st), isAuthenticated |-> FALSE, result |-> "success"]
    ELSE [store |-> st, isAuthenticated |-> auth, result |-> "failed"]

\* what auth-logout does after the remote call, whether it succeeded or
\* threw, or when no call was made
LogoutTail(remoteOk, st, auth) ==
    [store |-> StoreCleared(st), isAuthenticated |-> FALSE, result |-> "success"]

\* auth-logout is invoked: with a stored access token it posts to the logout
\* endpoint and awaits, without one it clears the store at once
MainLogoutStart ==
    /\ hasWindow
    /\ mLogout = "idle"
    /\ IF Present(StoreGet(store, "authToken"))
       THEN /\ mLogout' = "remote"
            /\ logoutResult' = "none"
            /\ UNCHANGED <<store, isAuthenticated>>
       ELSE /\ mLogout' = "returned"
            /\ store' = LogoutTail(TRUE, store, isAuthenticated).store
            /\ isAuthenticated' = LogoutTail(TRUE, store, isAuthenticated).isAuthenticated
            /\ logoutResult' = LogoutTail(TRUE, store, isAuthenticated).result
    /\ UNCHANGED <<now, mLogin, loginResult>>
    /\ UNCHANGED <<hasWindow, authVars, dataVars, credVars, piReq, mainRefreshVars, mainCheckVars, debugAuth>>

\* the remote logout call is answered: 200, an error status, or 0 for a
\* transport failure
MainLogoutAnswered(status) ==
    /\ mLogout = "remote"
    /\ mLogout' = "returned"
    /\ store' = LogoutTail(Is2xx(status), store, isAuthenticated).store
    /\ isAuthenticated' = LogoutTail(Is2xx(status), store, isAuthenticated).isAuthenticated
    /\ logoutResult' = LogoutTail(Is2xx(status), store, isAuthenticated).result
    /\ UNCHANGED <<now, mLogin, loginResult>>
    /\ UNCHANGED <<hasWindow, authVars, dataVars, credVars, piReq, mainRefreshVars, mainCheckVars, debugAuth>>

MainLogoutCollected ==
    /\ mLogout = "returned"
    /\ mLogout' = "idle"
    /\ UNCHANGED <<store, isAuthenticated, now, mLogin, loginResult, logoutResult>>
    /\ UNCHANGED <<hasWindow, authVars, dataVars, credVars, piReq, mainRefreshVars, mainCheckVars, debugAuth>>

\* the store after the three store.set calls of refreshToken()
StoreAfterRefresh(st, body, t) ==
    LET s1 == StoreSet(st, "authToken", body.token)
        s2 == StoreSet(s1, "refreshToken", body.refreshToken)
    IN  StoreSet(s2, "tokenExpiry", ExpiryTime(t, body.expiresIn))

\* bodies of a 2xx answer of the refresh endpoint; any field may be
\* missing, and either token may be the empty string
MainRefreshBodies ==
    [token : AccessTokens \cup {Null, ""}, refreshToken : RefreshTokens \cup {Null, ""},
     expiresIn : ExpiresIn \cup {NaN}]

Thrown == "thrown"

\* store.set(key, value) of a key the schema types as string takes any
\* string, the empty one too, and throws on a missing value
StoreTakes(value) == value # Null /\ value # Undefined

\* (variant) a refreshToken() whose catch block rethrows without the
\* forced logout
RefreshTokenTailKeeps(ok, body, st, auth, t) ==
    IF /\ ok
       /\ StoreTakes(body.token)
       /\ StoreTakes(body.refreshToken)
       /\ StoreTakesNumber(ExpiryTime(t, body.expiresIn))
    THEN [store |-> StoreAfterRefresh(st, body, t), isAuthenticated |-> auth,
          result |-> body.token]
    ELSE [store |-> st, isAuthenticated |-> auth, result |-> Thrown]

\* what refreshToken() does once its POST is answered, or when it finds no
\* refresh token: after a 2xx answer it stores the three values and
\* returns the token; store.set throws on a missing token and on the NaN
\* of a missing expiresIn, and every throw lands in the catch block, which
\* deletes the four keys
RefreshTokenTail(ok, body, st, auth, t) ==
    IF /\ ok
       /\ StoreTakes(body.token)
       /\ StoreTakes(body.refreshToken)
       /\ StoreTakesNumber(ExpiryTime(t, body.expiresIn))
    THEN [store |-> StoreAfterRefresh(st, body, t), isAuthenticated |-> auth,
          result |-> body.token]
    ELSE [store |-> StoreCleared(st), isAuthenticated |-> FALSE, result |-> Thrown]

\* no answer: the body of a call that never resolved
NoMainBody == [token |-> Null, refreshToken |-> Null, expiresIn |-> 0]

\* refreshToken() runs to its return or throw
MainRefreshEnds(ok, body) ==
    LET tail == RefreshTokenTail(ok, body, store, isAuthenticated, now)
    IN  /\ mRefresh' = "returned"
        /\ store' = tail.store
        /\ isAuthenticated' = tail.isAuthenticated
        /\ refreshResult' = tail.result

\* refreshToken() is called: without a stored refresh token it throws at
\* once, else it posts to the refresh endpoint and awaits
MainRefreshStart ==
    /\ mRefresh = "idle"
    /\ mRefreshStatus' = -1
    /\ IF Present(StoreGet(store, "refreshToken"))
       THEN /\ mRefresh' = "remote"
            /\ refreshResult' = "none"
            /\ UNCHANGED <<store, isAuthenticated>>
       ELSE MainRefreshEnds(FALSE, NoMainBody)
    /\ UNCHANGED <<now, mLogin, loginResult, mLogout, logoutResult>>
    /\ UNCHANGED <<hasWindow, authVars, dataVars, credVars, piReq, mainCheckVars, debugAuth>>

\* the refresh endpoint answers 2xx
MainRefreshAnswered(body) ==
    /\ mRefresh = "remote"
    /\ mRefreshStatus' = 200
    /\ MainRefreshEnds(TRUE, body)
    /\ UNCHANGED <<now, mLogin, loginResult, mLogout, logoutResult>>
    /\ UNCHANGED <<hasWindow, authVars, dataVars, credVars, piReq, mainCheckVars, debugAuth>>

\* the refresh POST rejects: an error status or a transport failure
MainRefreshFailed(status) ==
    /\ mRefresh = "remote"
    /\ mRefreshStatus' = status
    /\ MainRefreshEnds(FALSE, NoMainBody)
    /\ UNCHANGED <<now, mLogin, loginResult, mLogout, logoutResult>>
    /\ UNCHANGED <<hasWindow, authVars, dataVars, credVars, piReq, mainCheckVars, debugAuth>>

\* the caller of refreshToken() has its token or its exception
MainRefreshCollected ==
    /\ mRefresh = "returned"
    /\ mRefresh' = "idle"
    /\ UNCHANGED <<store, isAuthenticated, now, mLogin, loginResult, mLogout,
                   logoutResult, refreshResult, mRefreshStatus>>
    /\ UNCHANGED <<hasWindow, authVars, dataVars, credVars, piReq, mainCheckVars, debugAuth>>

NextMain ==
    \/ CreateWindow
    \/ CloseWindow
    \/ Tick
    \/ \E u \in BOOLEAN, p \in BOOLEAN : MainLoginStart(u, p)
    \/ \E body \in MainLoginBodies : MainLoginAnswered(body)
    \/ \E status \in ErrorStatuses : MainLoginFailed(status)
    \/ MainLoginCollected
    \/ MainLogoutStart
    \/ \E status \in ErrorStatuses \cup {200} : MainLogoutAnswered(status)
    \/ MainLogoutCollected
    \/ MainRefreshStart
    \/ \E body \in MainRefreshBodies : MainRefreshAnswered(body)
    \/ \E status \in ErrorStatuses : MainRefreshFailed(status)
    \/ MainRefreshCollected

\* the application starts with whatever an earlier run left on disk
InitApp ==
    /\ authToken = Null
    /\ refreshToken = Null
    /\ InitRequests
    /\ InitPi
    /\ apiToken = Null
    /\ lastCall = "none"
    /\ repeated = FALSE
    /\ prevCred = <<Null, Null, Null>>
    /\ \E disk \in PersistedStores : InitMainOn(disk)
    /\ debugAuth = NoDebugAuth

SpecMain == InitApp /\ [][NextMain]_vars

\* ------------------------------------- auth-check-status and its helpers
\* (variant) an expiry test that is strict at the threshold
isTokenExpiredStrict(st, t) ==
    IF "tokenExpiry" \notin DOMAIN st THEN TRUE
    ELSE IF st["tokenExpiry"] = NaN \/ st["tokenExpiry"] = 0 THEN TRUE
    ELSE t > st["tokenExpiry"] - 5 * 60 * 1000

\* isTokenExpired(): without a stored expiry (or with a falsy one) the
\* token is expired; else it is from five minutes before its expiry on
isTokenExpired(st, t) ==
    IF "tokenExpiry" \notin DOMAIN st THEN TRUE
    ELSE IF st["tokenExpiry"] = NaN \/ st["tokenExpiry"] = 0 THEN TRUE
    ELSE t >= st["tokenExpiry"] - 5 * 60 * 1000

\* the user of a 2xx answer of the status endpoint, if it has one
StatusUsers == {Null, "U1", "U2"}

\* (variant) a handler whose catch block leaves the store as it is
CheckStatusTailKeeps(ok, user, st) ==
    IF ok
    THEN [store |-> IF Present(user) THEN StoreSet(st, "user", user) ELSE st,
          isAuthenticated |-> TRUE, result |-> "authenticated"]
    ELSE [store |-> st, isAuthenticated |-> FALSE, result |-> "expired"]

\* what auth-check-status does once getValidToken() or the status call
\* has ended: after a 2xx answer it sets isAuthenticated and stores the
\* user the answer carries; after any throw its catch block deletes the
\* four keys and returns 'Session expired'
CheckStatusTail(ok, user, st) ==
    IF ok
    THEN [store |-> IF Present(user) THEN StoreSet(st, "user", user) ELSE st,
          isAuthenticated |-> TRUE, result |-> "authenticated"]
    ELSE [store |-> StoreCleared(st), isAuthenticated |-> FALSE, result |-> "expired"]

\* the handler returns from st, the store as the step before left it
MainCheckEnds(ok, user, st) ==
    /\ mCheck' = "returned"
    /\ store' = CheckStatusTail(ok, user, st).store
    /\ isAuthenticated' = CheckStatusTail(ok, user, st).isAuthenticated
    /\ checkResult' = CheckStatusTail(ok, user, st).result

\* refreshToken() called by getValidToken() throws: its catch block has
\* run from store st, and the catch block of the handler is due once the
\* rejection has passed the two awaits (main.js:100, 370)
MainCheckRefreshThrows(st) ==
    /\ mCheck' = "thrown"
    /\ store' = RefreshTokenTail(FALSE, NoMainBody, st, isAuthenticated, now).store
    /\ isAuthenticated' =
           RefreshTokenTail(FALSE, NoMainBody, st, isAuthenticated, now).isAuthenticated
    /\ checkResult' = "none"

\* auth-check-status is invoked: without a stored access token it returns
\* at once; else getValidToken() either finds the token expired and calls
\* refreshToken(), which posts and awaits or throws for want of a refresh
\* token, or returns the stored token, with which the status call is made
MainCheckStart ==
    /\ hasWindow
    /\ mCheck = "idle"
    /\ checkStatus' = -1
    /\ IF ~Present(StoreGet(store, "authToken"))
       THEN /\ mCheck' = "returned"
            /\ checkResult' = "anonymous"
            /\ isAuthenticated' = FALSE
            /\ checkToken' = Null
            /\ UNCHANGED store
       ELSE IF isTokenExpired(store, now)
       THEN IF Present(StoreGet(store, "refreshToken"))
            THEN /\ mCheck' = "refresh"
                 /\ checkResult' = "none"
                 /\ checkToken' = Null
                 /\ UNCHANGED <<store, isAuthenticated>>
            ELSE /\ MainCheckRefreshThrows(store)
                 /\ checkToken' = Null
       ELSE /\ mCheck' = "status"
            /\ checkResult' = "none"
            /\ checkToken' = StoreGet(store, "authToken")
            /\ UNCHANGED <<store, isAuthenticated>>
    /\ UNCHANGED <<now, mLogin, loginResult, mLogout, logoutResult, mainRefreshVars>>
    /\ UNCHANGED <<hasWindow, authVars, dataVars, credVars, piReq, debugAuth>>

\* the refresh endpoint answers the handler's refreshToken() with 2xx: a
\* complete answer is stored and its token goes into the status call; an
\* answer store.set throws on ends refreshToken() in its catch block
MainCheckRefreshAnswered(body) ==
    /\ mCheck = "refresh"
    /\ LET tail == RefreshTokenTail(TRUE, body, store, isAuthenticated, now)
       IN  IF tail.result = Thrown
           THEN /\ MainCheckRefreshThrows(store)
                /\ checkToken' = Null
           ELSE /\ mCheck' = "status"
                /\ store' = tail.store
                /\ isAuthenticated' = tail.isAuthenticated
                /\ checkToken' = tail.result
                /\ checkResult' = "none"
    /\ UNCHANGED <<now, mLogin, loginResult, mLogout, logoutResult, mainRefreshVars>>
    /\ UNCHANGED <<hasWindow, checkStatus, authVars, dataVars, credVars, piReq, debugAuth>>

\* the handler's refresh POST rejects: refreshToken() ends in its catch
\* block
MainCheckRefreshFailed(status) ==
    /\ mCheck = "refresh"
    /\ MainCheckRefreshThrows(store)
    /\ UNCHANGED <<now, mLogin, loginResult, mLogout, logoutResult, mainRefreshVars>>
    /\ UNCHANGED <<hasWindow, checkToken, checkStatus, authVars, dataVars, credVars, piReq, debugAuth>>

\* the exception of getValidToken() reaches the handler: its catch block
\* deletes the four keys again and returns 'Session expired'
MainCheckCaught ==
    /\ mCheck = "thrown"
    /\ MainCheckEnds(FALSE, Null, store)
    /\ UNCHANGED <<now, mLogin, loginResult, mLogout, logoutResult, mainRefreshVars>>
    /\ UNCHANGED <<hasWindow, checkToken, checkStatus, authVars, dataVars, credVars, piReq, debugAuth>>

\* the status endpoint answers 2xx
MainCheckStatusAnswered(user) ==
    /\ mCheck = "status"
    /\ checkStatus' = 200
    /\ MainCheckEnds(TRUE, user, store)
    /\ UNCHANGED <<now, mLogin, loginResult, mLogout, logoutResult, mainRefreshVars>>
    /\ UNCHANGED <<hasWindow, checkToken, authVars, dataVars, credVars, piReq, debugAuth>>

\* the status call rejects: an error status or a transport failure
MainCheckStatusFailed(status) ==
    /\ mCheck = "status"
    /\ checkStatus' = status
    /\ MainCheckEnds(FALSE, Null, store)
    /\ UNCHANGED <<now, mLogin, loginResult, mLogout, logoutResult, mainRefreshVars>>
    /\ UNCHANGED <<hasWindow, checkToken, authVars, dataVars, credVars, piReq, debugAuth>>

\* the renderer has the handler's answer and may invoke it again
MainCheckCollected ==
    /\ mCheck = "returned"
    /\ mCheck' = "idle"
    /\ UNCHANGED <<store, isAuthenticated, now, mLogin, loginResult, mLogout,
                   logoutResult, mainRefreshVars>>
    /\ UNCHANGED <<checkResult, checkToken, checkStatus>>
    /\ UNCHANGED <<hasWindow, authVars, dataVars, credVars, piReq, debugAuth>>

\* the three handlers of the main process, invoked by the renderer in any
\* order and overlapping at their awaits
NextIpc ==
    \/ CreateWindow
    \/ CloseWindow
    \/ Tick
    \/ \E u \in BOOLEAN, p \in BOOLEAN : MainLoginStart(u, p)
    \/ \E body \in MainLoginBodies : MainLoginAnswered(body)
    \/ \E status \in ErrorStatuses : MainLoginFailed(status)
    \/ MainLoginCollected
    \/ MainLogoutStart
    \/ \E status \in ErrorStatuses \cup {200} : MainLogoutAnswered(status)
    \/ MainLogoutCollected
    \/ MainCheckStart
    \/ \E body \in MainRefreshBodies : MainCheckRefreshAnswered(body)
    \/ \E status \in ErrorStatuses : MainCheckRefreshFailed(status)
    \/ MainCheckCaught
    \/ \E user \in StatusUsers : MainCheckStatusAnswered(user)
    \/ \E status \in ErrorStatuses : MainCheckStatusFailed(status)
    \/ MainCheckCollected

SpecIpc == InitApp /\ [][NextIpc]_vars

\* ------------------------------------------------ the debug auth module
\* the message refreshAuthToken() throws with when no refresh token is stored
NoRefreshTokenMessage == "No refresh token available for token refresh"

\* (variant) a refreshAuthToken() without the check of the refresh token
DebugRefreshStepUnchecked(d) ==
    [d EXCEPT !.pc = "posted", !.result = "none", !.posts = d.posts + 1,
              !.body = d.refreshToken]

\* refreshAuthToken() of the debug module up to its first await: without a
\* refresh token it throws, before the try block; else it posts the
\* refresh token to the refresh endpoint
DebugRefreshStep(d) ==
    IF ~Truthy(d.refreshToken)
    THEN [d EXCEPT !.pc = "returned", !.result = NoRefreshTokenMessage]
    ELSE [d EXCEPT !.pc = "posted", !.result = "none", !.posts = d.posts + 1,
                   !.body = d.refreshToken]

\* setTokens(token, refresh) of the debug module
DebugSetTokens(token, refresh) ==
    /\ debugAuth' = [debugAuth EXCEPT !.authToken = token, !.refreshToken = refresh]
    /\ UNCHANGED <<authVars, dataVars, credVars, mainVars, piReq>>

\* clearTokens() of the debug module
DebugClearTokens ==
    /\ debugAuth' = [debugAuth EXCEPT !.authToken = Null, !.refreshToken = Null]
    /\ UNCHANGED <<authVars, dataVars, credVars, mainVars, piReq>>

\* refreshAuthToken() is called
DebugRefreshCall ==
    /\ debugAuth.pc = "idle"
    /\ debugAuth.posts < MaxCount
    /\ debugAuth' = DebugRefreshStep(debugAuth)
    /\ UNCHANGED <<authVars, dataVars, credVars, mainVars, piReq>>

\* its POST is answered: a 2xx response is returned, anything else lands
\* in the catch block
DebugRefreshAnswered(status) ==
    /\ debugAuth.pc = "posted"
    /\ debugAuth' = [debugAuth EXCEPT !.pc = "returned",
                         !.result = IF Is2xx(status) THEN "response" ELSE "failed"]
    /\ UNCHANGED <<authVars, dataVars, credVars, mainVars, piReq>>

\* the caller has the response or the exception
DebugRefreshCollected ==
    /\ debugAuth.pc = "returned"
    /\ debugAuth' = [debugAuth EXCEPT !.pc = "idle"]
    /\ UNCHANGED <<authVars, dataVars, credVars, mainVars, piReq>>

\* login(), logout(), checkAuthStatus() or a holder of the exported
\* authClient issues a request through authClient
DebugCall(k) ==
    /\ debugAuth.rpc = "idle"
    /\ debugAuth.posts < MaxCount
    /\ k \in Kinds
    /\ debugAuth' = [debugAuth EXCEPT !.rpc = "queued", !.kind = k]
    /\ UNCHANGED <<authVars, dataVars, credVars, mainVars, piReq>>

\* the request interceptor of the debug authClient attaches the stored
\* token, if any
DebugRequestInterceptor ==
    /\ debugAuth.rpc = "queued"
    /\ debugAuth' = [debugAuth EXCEPT !.rpc = "inflight",
                        !.header = AttachAuthorization(@, debugAuth.authToken)]
    /\ UNCHANGED <<authVars, dataVars, credVars, mainVars, piReq>>

\* the promise of the debug authClient settles: the config of the request
\* is dropped, and login() and logout() have code due after their await
DebugSettle(d, ok, body) ==
    [d EXCEPT !.rpc = IF HasContinuation(d.kind) THEN "settling" ELSE "done",
              !.ok = ok,
              !.data = IF d.kind = "login" THEN body ELSE NoBody,
              !.header = NoHeader,
              !.retry = FALSE]

\* a 2xx answer passes the response interceptor unchanged; body is what
\* login() looks at in response.data
DebugResponseSuccess(body) ==
    /\ debugAuth.rpc = "inflight"
    /\ debugAuth.kind # "login" => body = NoBody
    /\ debugAuth' = DebugSettle(debugAuth, TRUE, body)
    /\ UNCHANGED <<authVars, dataVars, credVars, mainVars, piReq>>

\* a rejected request: on a first 401 with a refresh token stored the
\* handler sets _retry and awaits refreshAuthToken(), which posts the
\* refresh token; otherwise it rejects with the error
DebugResponseError(status) ==
    /\ debugAuth.rpc = "inflight"
    /\ debugAuth' =
           IF ShouldRefresh(status, debugAuth.retry, debugAuth.refreshToken)
           THEN [debugAuth EXCEPT !.retry = TRUE, !.rpc = "refreshing",
                                  !.posts = debugAuth.posts + 1,
                                  !.body = debugAuth.refreshToken]
           ELSE DebugSettle(debugAuth, FALSE, NoBody)
    /\ UNCHANGED <<authVars, dataVars, credVars, mainVars, piReq>>

\* the 401 handler resumes from its await of refreshAuthToken(): a 2xx
\* answer with a token is stored as authToken and the request is sent
\* again; a 2xx answer without one rejects with the tokens kept; a failed
\* POST makes refreshAuthToken() throw (its catch block is cut off in the
\* source and taken to rethrow, as the catch blocks beside it do), and
\* the handler clears the tokens and rejects
DebugRefreshHandled(resp) ==
    /\ debugAuth.rpc = "refreshing"
    /\ debugAuth' =
           IF Is2xx(resp.status)
           THEN IF Truthy(resp.token)
                THEN [debugAuth EXCEPT !.authToken = resp.token,
                                       !.header = Bearer(resp.token),
                                       !.rpc = "queued"]
                ELSE DebugSettle(debugAuth, FALSE, NoBody)
           ELSE DebugSettle([debugAuth EXCEPT
                                !.authToken = clearTokens(debugAuth.authToken,
                                                          debugAuth.refreshToken)[1],
                                !.refreshToken = clearTokens(debugAuth.authToken,
                                                             debugAuth.refreshToken)[2]],
                            FALSE, NoBody)
    /\ UNCHANGED <<authVars, dataVars, credVars, mainVars, piReq>>

\* login() or logout() of the debug module resumes from its await: login
\* stores the tokens of a complete 2xx answer, logout clears them whether
\* the call resolved or threw
DebugResume ==
    /\ debugAuth.rpc = "settling"
    /\ LET after == AfterCaller(debugAuth.kind, debugAuth.ok, debugAuth.data,
                                debugAuth.authToken, debugAuth.refreshToken)
       IN  debugAuth' = [debugAuth EXCEPT !.rpc = "done", !.authToken = after[1],
                                          !.refreshToken = after[2], !.data = NoBody]
    /\ UNCHANGED <<authVars, dataVars, credVars, mainVars, piReq>>

\* the caller has its answer or its exception
DebugCollected ==
    /\ debugAuth.rpc = "done"
    /\ debugAuth' = [debugAuth EXCEPT !.rpc = "idle", !.kind = "api", !.ok = FALSE]
    /\ UNCHANGED <<authVars, dataVars, credVars, mainVars, piReq>>

NextDebug ==
    \/ \E token \in AccessTokens, refresh \in RefreshTokens \cup {Null} :
           DebugSetTokens(token, refresh)
    \/ DebugClearTokens
    \/ DebugRefreshCall
    \/ \E status \in ErrorStatuses \cup {200} : DebugRefreshAnswered(status)
    \/ DebugRefreshCollected
    \/ \E k \in Kinds : DebugCall(k)
    \/ DebugRequestInterceptor
    \/ \E body \in Bodies : DebugResponseSuccess(body)
    \/ \E status \in ErrorStatuses : DebugResponseError(status)
    \/ \E resp \in RefreshResponses : DebugRefreshHandled(resp)
    \/ DebugResume
    \/ DebugCollected

SpecDebug == Init /\ [][NextDebug]_vars

\* getAuthToken() / getRefreshToken()
getAuthToken == authToken
getRefreshToken == refreshToken

TypeOK ==
    /\ authToken \in AccessTokens \cup {Null}
    /\ refreshToken \in RefreshTokens \cup {Null}
    /\ pc \in [Req -> {"idle", "queued", "inflight", "refreshing", "settling", "done"}]
    /\ kind \in [Req -> Kinds]
    /\ retry \in [Req -> BOOLEAN]
    /\ sends \in [Req -> 0..MaxCount]

\* ------------------------------------------------------------ properties
\* the requests whose refresh POST is outstanding
Refreshing == {r \in Req : pc[r] = "refreshing"}

\* request r passes the request interceptor in this step
Sent(r) == pc[r] = "queued" /\ pc'[r] = "inflight"

\* the refresh POST of request r is answered in this step
RefreshAnswered(r) == pc[r] = "refreshing" /\ pc'[r] # "refreshing"

\* the promise of authClient for request r is settled after this step
ClientSettled(r) == pc'[r] \in {"settling", "done"}

\* what the answer of that step was, seen from the server side
AnswerClass(r) ==
    IF ClientSettled(r) THEN outcome'[r].refresh ELSE RefreshClass(refreshResp'[r])

\* the caller of r gets the 401 error of the send that drew the refresh
OriginalErrorReturned(r) ==
    /\ ClientSettled(r)
    /\ ~outcome'[r].ok
    /\ outcome'[r].status = Unauthorized
    /\ outcome'[r].send = sends[r]
    /\ retries'[r] = retries[r]

\* C1: at no point are two refresh POSTs outstanding at once, however many
\* requests drew a 401.
C1_AtMostOneRefreshOutstanding == Cardinality(Refreshing) <= 1

\* C2: a request whose 401 is handled while another request's refresh is
\* outstanding starts no refresh of its own, and two requests whose
\* refreshes overlapped never end one retried with a fresh token and the
\* other with the credential cleared.
C2_LateRequestSharesRefresh ==
    [][\A r \in Req :
         /\ (pc[r] = "inflight" /\ Refreshing \ {r} # {}) => pc'[r] # "refreshing"
         /\ (RefreshAnswered(r) /\ peer[r] # "none") =>
                /\ ~(AnswerClass(r) = "ok" /\ RefreshFailed(peer[r]))
                /\ ~(RefreshFailed(AnswerClass(r)) /\ peer[r] = "ok")]_vars

\* C3: a request is re-issued at most once by the 401 handler, and its
\* _retry flag is set from the moment the refresh is attempted until the
\* response of the retried request has been handled.
C3_AtMostOneRetry ==
    \A r \in Req :
        /\ retries[r] <= 1
        /\ sends[r] <= 2
        /\ pc[r] = "refreshing" => retry[r]
        /\ (retries[r] >= 1 /\ pc[r] \in {"queued", "inflight"}) => retry[r]

\* a retried request drew a second 401 and was settled with it
C3_Witness ==
    \E r \in Req : /\ pc[r] = "done" /\ retries[r] = 1
                   /\ outcome[r].status = Unauthorized /\ outcome[r].send = 2

\* C4: a request whose 401 led to a refresh answered 2xx with a token is
\* re-sent exactly once, and its caller gets the outcome of that second
\* send, not the 401 of the first.
C4_RetriedOnceAfterRefresh ==
    \A r \in Req :
        (pc[r] = "done" /\ outcome[r].refresh = "ok") =>
            /\ retries[r] = 1
            /\ sends[r] = 2
            /\ outcome[r].send = 2

C4_Witness ==
    \E r \in Req : /\ pc[r] = "done" /\ outcome[r].refresh = "ok"
                   /\ outcome[r].ok /\ outcome[r].send = 2

\* C5: when the refresh POST of a request rejects (transport failure or
\* non-2xx), the caller gets the original 401 error and both stored tokens
\* are absent, so getAuthToken() is null.
C5_RefreshFailureDeauthenticates ==
    [][\A r \in Req :
         (RefreshAnswered(r) /\ RefreshFailed(AnswerClass(r))) =>
            /\ OriginalErrorReturned(r)
            /\ getAuthToken' = Null
            /\ getRefreshToken' = Null]_vars

C5_Witness ==
    \E r \in Req : /\ pc[r] = "done" /\ RefreshFailed(outcome[r].refresh)
                   /\ kind[r] = "api" /\ getAuthToken = Null /\ getRefreshToken = Null

\* C6: a refresh answered 2xx without the token field is a refresh failure:
\* the request is not retried, the caller gets the original 401 error, and
\* both stored tokens are cleared.
C6_MalformedRefreshDeauthenticates ==
    [][\A r \in Req :
         (RefreshAnswered(r) /\ AnswerClass(r) = "malformed") =>
            /\ OriginalErrorReturned(r)
            /\ getAuthToken' = Null
            /\ getRefreshToken' = Null]_vars

\* C7: the answer to a refresh POST never passes the response interceptor:
\* while the refresh of a request is outstanding, and in the step that
\* answers it, no further refresh POST is issued for that request, so no
\* request ever has more than one refresh POST made for it.
C7_RefreshNotIntercepted ==
    [][\A r \in Req :
         /\ pc[r] = "refreshing" => refreshCount'[r] = refreshCount[r]
         /\ refreshCount'[r] <= 1]_vars

\* a refresh POST was answered with an HTTP error and the request ended there
C7_Witness ==
    \E r \in Req : /\ pc[r] = "done" /\ outcome[r].refresh = "rejected"
                   /\ refreshCount[r] = 1 /\ sends[r] = 1

\* C8: after a refresh answered 2xx with a token, the stored access token
\* is the response's token and the stored refresh token is the response's
\* refreshToken.
C8_RefreshInstallsBothTokens ==
    [][\A r \in Req :
         (RefreshAnswered(r) /\ AnswerClass(r) = "ok") =>
            /\ getAuthToken' = refreshResp'[r].token
            /\ getRefreshToken' = refreshResp'[r].refreshToken]_vars

\* C9: a request that passes the request interceptor while an access token
\* is stored goes out with Authorization equal to "Bearer " followed by
\* that token, on its first send and on its retry.
C9_BearerIsStoredToken ==
    [][\A r \in Req :
         (Sent(r) /\ authToken # Null) => header'[r] = "Bearer " \o authToken]_vars

\* a retry is in flight carrying the stored token
C9_Witness ==
    \E r \in Req : /\ pc[r] = "inflight" /\ sends[r] = 2
                   /\ authToken # Null /\ header[r] = "Bearer " \o authToken

\* C10: a request that passes the request interceptor while no access
\* token is stored goes out without an Authorization header.
C10_NoHeaderWhileAnonymous ==
    [][\A r \in Req :
         (Sent(r) /\ authToken = Null) => header'[r] = NoHeader]_vars
\* the transport answers request r in this step
Answered(r) == pc[r] = "inflight" /\ pc'[r] # "inflight"

\* request r settles in this step
Settled(r) == pc[r] # "done" /\ pc'[r] = "done"

\* the error of the answer of this step goes to the caller as it is: no
\* refresh POST, no re-send
Propagated(r) ==
    /\ ClientSettled(r)
    /\ ~outcome'[r].ok
    /\ outcome'[r].status = lastStatus'[r]
    /\ outcome'[r].send = sends[r]
    /\ refreshCount' = refreshCount
    /\ refreshBody' = refreshBody
    /\ retries' = retries
    /\ sends' = sends

\* the interceptor leaves the stored tokens alone (logout's own
\* clearTokens() follows when logout resumes)
TokensKept(r) == authToken' = authToken /\ refreshToken' = refreshToken

\* C11: when logout() settles, after a 2xx, an error status or a transport
\* failure, both stored tokens are absent, and a failed remote call is
\* re-thrown to the caller.
C11_LogoutAlwaysAnonymous ==
    [][\A r \in Req :
         (kind[r] = "logout" /\ Settled(r)) =>
            /\ getAuthToken' = Null
            /\ getRefreshToken' = Null
            /\ ~Is2xx(lastStatus'[r]) => ~outcome'[r].ok]_vars

\* a logout whose remote call failed at transport level has settled
C11_Witness ==
    \E r \in Req : /\ kind[r] = "logout" /\ pc[r] = "done" /\ lastStatus[r] = 0
                   /\ ~outcome[r].ok /\ getAuthToken = Null /\ getRefreshToken = Null

\* C13: a 401 answered to a request that was already retried, or while no
\* refresh token is stored, is propagated: no refresh POST, no re-send, the
\* stored tokens as they were.
C13_UnrecoverableUnauthorizedPropagated ==
    [][\A r \in Req :
         (Answered(r) /\ lastStatus'[r] = Unauthorized
            /\ (retry[r] \/ refreshToken = Null)) =>
                Propagated(r) /\ TokensKept(r)]_vars

\* a first send drew a 401 with no refresh token stored and ended there
C13_Witness ==
    \E r \in Req : /\ pc[r] = "done" /\ kind[r] = "api"
                   /\ outcome[r].status = Unauthorized /\ sends[r] = 1
                   /\ refreshCount[r] = 0

\* C14: a transport failure of a request goes to the caller as it is: no
\* retry, no refresh POST, the stored tokens as they were.
C14_TransportFailurePropagated ==
    [][\A r \in Req :
         (Answered(r) /\ lastStatus'[r] = 0) => Propagated(r) /\ TokensKept(r)]_vars

\* a request failed at transport level while a refresh token was stored
C14_Witness ==
    \E r \in Req : /\ pc[r] = "done" /\ kind[r] = "api" /\ outcome[r].status = 0
                   /\ refreshToken # Null /\ refreshCount[r] = 0

\* C15: an error status other than 401 goes to the caller with its status:
\* no refresh POST, no retry, the stored tokens as they were.
C15_OtherStatusPropagated ==
    [][\A r \in Req :
         (Answered(r) /\ lastStatus'[r] \notin {0, Unauthorized}
            /\ ~Is2xx(lastStatus'[r])) =>
                Propagated(r) /\ TokensKept(r)]_vars

\* a request drew a 500 while a refresh token was stored
C15_Witness ==
    \E r \in Req : /\ pc[r] = "done" /\ kind[r] = "api" /\ outcome[r].status = 500
                   /\ refreshToken # Null /\ refreshCount[r] = 0

\* C16: the request of login() goes out without an Authorization header
\* and never leads to a refresh POST, whatever tokens are stored.
C16_LoginUnauthenticated ==
    [][\A r \in Req :
         kind[r] = "login" =>
            /\ Sent(r) => header'[r] = NoHeader
            /\ pc'[r] # "refreshing"]_vars

\* C18: the caller's promise resolves only for a request whose last answer
\* was a 2xx; after any other answer, and after every refresh outcome that
\* ends the request, it rejects.
C18_ResolvesOnlyOn2xx ==
    \A r \in Req :
        pc[r] = "done" =>
            /\ outcome[r].ok <=> Is2xx(lastStatus[r])
            /\ outcome[r].ok => (Is2xx(outcome[r].status) /\ outcome[r].send = sends[r])
            /\ ~outcome[r].ok => outcome[r].status \in ErrorStatuses

\* a request ended on a malformed refresh answer and was rejected
C18_Witness ==
    \E r \in Req : /\ pc[r] = "done" /\ outcome[r].refresh = "malformed"
                   /\ ~outcome[r].ok
\* C17: when login() gets a 2xx it returns the body without error; if the
\* body has both token and refreshToken the stored tokens are exactly
\* those two values afterwards, and otherwise they are left as they were.
C17_LoginStoresCompleteAnswer ==
    [][\A r \in Req :
         /\ (kind[r] = "login" /\ Answered(r) /\ lastStatus'[r] = 200) =>
                /\ ClientSettled(r)
                /\ outcome'[r].ok
                /\ responseData' = answerBody'
         /\ (kind[r] = "login" /\ Settled(r) /\ outcome[r].ok) =>
                /\ outcome'[r].ok
                /\ responseData' = answerBody
                /\ IF responseData.token # Null /\ responseData.refreshToken # Null
                   THEN /\ getAuthToken' = responseData.token
                        /\ getRefreshToken' = responseData.refreshToken
                   ELSE /\ getAuthToken' = authToken
                        /\ getRefreshToken' = refreshToken]_vars

\* a login answered with only a token returned while other tokens were stored
C17_Witness ==
    \E r \in Req : /\ kind[r] = "login" /\ pc[r] = "done" /\ outcome[r].ok
                   /\ responseData.token # Null /\ responseData.refreshToken = Null
                   /\ getAuthToken # Null /\ getAuthToken # responseData.token

\* C19: if every HTTP call issued is eventually answered, every request
\* issued through authClient eventually settles, and never with more than
\* three HTTP calls made for it (first send, one refresh POST, one retry).
C19_EveryRequestSettles ==
    /\ \A r \in Req : (pc[r] = "queued") ~> (pc[r] = "done")
    /\ [](\A r \in Req : sends[r] + refreshCount[r] <= 3)

\* a request settled after a first send, a refresh POST and a retry
C19_Witness ==
    \E r \in Req : pc[r] = "done" /\ sends[r] = 2 /\ refreshCount[r] = 1
\* C12: a second clearTokens() right after a first leaves the state the
\* first one left, both tokens absent, whatever was stored before; the
\* same for clearToken() of the single-token module.
C12_ClearTokensIdempotent ==
    /\ (repeated /\ lastCall = "clearTokens") =>
          /\ <<authToken, refreshToken>> = <<prevCred[1], prevCred[2]>>
          /\ authToken = Null /\ refreshToken = Null
    /\ (repeated /\ lastCall = "clearToken") =>
          /\ apiToken = prevCred[3]
          /\ apiToken = Null

\* clearTokens() has been called twice in a row
C12_Witness == repeated /\ lastCall = "clearTokens" /\ prevCred[1] = Null
\* C20: auth-logout, whatever its remote call did, returns with the four
\* keys deleted from the store, isAuthenticated false and success true; it
\* makes the remote call exactly when an access token was stored.
C20_MainLogoutAuthoritative ==
    [][/\ (mLogout # "returned" /\ mLogout' = "returned") =>
            /\ DOMAIN store' \cap StoreKeys = {}
            /\ ~isAuthenticated'
            /\ logoutResult' = "success"
       /\ (mLogout = "idle" /\ mLogout' # "idle") =>
            (mLogout' = "remote" <=> Present(StoreGet(store, "authToken")))]_vars

\* a logout returned although a login had filled the store meanwhile
C20_Witness ==
    /\ mLogout = "returned" /\ logoutResult = "success"
    /\ loginResult = "success"
    /\ DOMAIN store = {} /\ ~isAuthenticated
\* the retry of request r passes the request interceptor in this step
RetrySent(r) == Sent(r) /\ retry[r] /\ refreshResp[r] # NoResp

\* the stored tokens change in this step
CredentialChanged == authToken' # authToken \/ refreshToken' # refreshToken

\* a call of setTokens(): the requests are where they were
SetTokensCalled == CredentialChanged /\ reqVars' = reqVars /\ authToken' # Null

\* a login settles in this step with a complete 2xx answer
LoginSucceeded == \E r \in Req : kind[r] = "login" /\ Settled(r) /\ outcome'[r].ok

\* C21: the retry that follows a refresh goes out with 'Bearer ' and the
\* token that refresh returned.
C21_RetryCarriesRefreshedToken ==
    [][\A r \in Req : RetrySent(r) => header'[r] = Bearer(refreshResp[r].token)]_vars

\* C22: once the access token is absent it stays absent until setTokens()
\* is called or a login succeeds; a refresh answered later installs nothing.
C22_ClearedStaysCleared ==
    [][(authToken = Null /\ authToken' # Null) => (SetTokensCalled \/ LoginSucceeded)]_vars

\* C23: the stored access token and the stored refresh token are both
\* present or both absent.
C23_CredentialIsUnit == (authToken = Null) <=> (refreshToken = Null)

\* C24: a refresh POST that fails after the stored refresh token was
\* replaced leaves the newer tokens in place.
C24_StaleRefreshFailureKeepsNewer ==
    [][\A r \in Req :
         (RefreshAnswered(r) /\ RefreshFailed(AnswerClass(r))
            /\ kind[r] # "logout"
            /\ refreshToken # Null /\ refreshToken # refreshBody[r]) =>
                ~CredentialChanged]_vars

\* C25: a login() that rejects leaves the stored tokens as they were when
\* it was called.
C25_FailedLoginKeepsTokens ==
    \A r \in Req :
        (kind[r] = "login" /\ pc[r] = "done" /\ ~outcome[r].ok) =>
            <<authToken, refreshToken>> = <<prevCred[1], prevCred[2]>>

\* the 401 handler of request r calls refreshAuthToken() in this step
RefreshIssued(r) == pc[r] = "inflight" /\ pc'[r] = "refreshing"

\* C26: refreshAuthToken() leaves the stored tokens alone; the 401 handler
\* that awaited it writes the access token after a usable answer, clears
\* both tokens after a rejected POST, and touches nothing otherwise.
C26_RefreshCallKeepsTokens ==
    [][\A r \in Req :
         /\ RefreshIssued(r) => ~CredentialChanged
         /\ (RefreshAnswered(r) /\ AnswerClass(r) = "ok") =>
                /\ authToken' = refreshResp'[r].token
                /\ refreshToken' = refreshToken
         /\ (RefreshAnswered(r) /\ RefreshFailed(AnswerClass(r))) =>
                /\ authToken' = Null
                /\ refreshToken' = Null
         /\ (RefreshAnswered(r) /\ AnswerClass(r) = "malformed") =>
                ~CredentialChanged]_vars

\* a refresh POST is outstanding and both tokens are still stored
C26_Witness ==
    \E r \in Req : /\ pc[r] = "refreshing" /\ authToken # Null
                   /\ refreshToken # Null /\ refreshBody[r] = refreshToken

\* C27: every refresh POST carries a refresh token, the one stored when the
\* 401 was handled.
C27_RefreshBodyIsStoredToken ==
    /\ [](\A r \in Req : pc[r] = "refreshing" => refreshBody[r] \in RefreshTokens)
    /\ [][\A r \in Req :
            RefreshIssued(r) =>
                (refreshBody'[r] = refreshToken /\ refreshBody'[r] # Null)]_vars

\* a refresh POST is outstanding with a token that has been replaced since
C27_Witness ==
    \E r \in Req : /\ pc[r] = "refreshing" /\ refreshBody[r] = "R1"
                   /\ refreshToken = "R2"

\* C28: an api request answered 2xx on its first send has made one HTTP
\* call and no refresh POST, leaves the stored tokens as they were, and its
\* caller gets the body of that answer.
C28_FirstSendSuccess ==
    [][\A r \in Req :
         (kind[r] = "api" /\ Answered(r) /\ lastStatus'[r] = 200
            /\ sends[r] = 1 /\ ~retry[r]) =>
                /\ Settled(r)
                /\ outcome'[r].ok
                /\ outcome'[r].send = 1
                /\ sends'[r] = 1
                /\ retries'[r] = 0
                /\ refreshCount'[r] = 0
                /\ ~CredentialChanged
                /\ responseData' = answerBody']_vars

\* an api request resolved on its first send while tokens were stored
C28_Witness ==
    \E r \in Req : /\ kind[r] = "api" /\ pc[r] = "done" /\ outcome[r].ok
                   /\ outcome[r].send = 1 /\ refreshCount[r] = 0
                   /\ responseData # NoBody /\ responseData = answerBody
                   /\ authToken # Null /\ refreshToken # Null

\* the transport answers request r of the PiNetworkAPI client in this step
PiAnswered(r) == piReq[r].pc = "inflight" /\ piReq'[r].pc # "inflight"

\* C29: in the PiNetworkAPI client an answer ends the request at once, with
\* no re-send; a 401 clears the stored token, any other error status and a
\* transport failure leave it as it was, and every error is rejected to the
\* caller.
C29_PiUnauthorizedClearsToken ==
    [][\A r \in Req :
         PiAnswered(r) =>
            /\ piReq'[r].pc \in {"settling", "done"}
            /\ piReq'[r].sends = piReq[r].sends
            /\ piReq'[r].status = Unauthorized => getToken' = Null
            /\ piReq'[r].status # Unauthorized => getToken' = getToken
            /\ ~Is2xx(piReq'[r].status) => ~piReq'[r].ok]_vars

\* a request sent with the token drew a 401, and the token is gone
C29_Witness ==
    \E r \in Req : /\ piReq[r].pc = "done" /\ piReq[r].status = Unauthorized
                   /\ piReq[r].header # NoHeader /\ ~piReq[r].ok
                   /\ getToken = Null

\* refreshToken() of the main process returns or throws in this step
MainRefreshEnded == mRefresh # "returned" /\ mRefresh' = "returned"

ExpiryStored(st) == "tokenExpiry" \in DOMAIN st /\ st["tokenExpiry"] # NaN

\* auth-check-status is past its first step with a stored access token,
\* that is, getValidToken() has been called
GetValidTokenCalled ==
    mCheck = "idle" /\ mCheck' # "idle" /\ Present(StoreGet(store, "authToken"))

\* C31: a token counts as expired exactly when no expiry is stored or the
\* clock is at or past the stored expiry minus five minutes; getValidToken()
\* calls the refresh if and only if the token counts as expired, and
\* otherwise hands the stored access token on with no call made and the
\* store untouched.
C31_RefreshIffExpired ==
    [][GetValidTokenCalled =>
         IF ~ExpiryStored(store) \/ now >= store["tokenExpiry"] - 5 * 60 * 1000
         THEN /\ isTokenExpired(store, now)
              /\ mCheck' # "status"
              /\ Present(StoreGet(store, "refreshToken")) => mCheck' = "refresh"
         ELSE /\ ~isTokenExpired(store, now)
              /\ mCheck' = "status"
              /\ checkToken' = StoreGet(store, "authToken")
              /\ store' = store]_vars

\* the handler awaits the refresh it started at the very millisecond the
\* five-minute margin begins
C31_Witness ==
    /\ mCheck = "refresh"
    /\ ExpiryStored(store)
    /\ now = store["tokenExpiry"] - 5 * 60 * 1000
    /\ Present(StoreGet(store, "authToken"))

\* auth-check-status returns to the renderer
CheckReturns == mCheck # "returned" /\ mCheck' = "returned"

\* C32: auth-check-status always returns an answer; with no stored access
\* token it returns at once, not authenticated, the store untouched; when
\* the refresh or the status call fails, the four keys are gone,
\* isAuthenticated is false and the answer is 'Session expired'; it answers
\* authenticated only after a 2xx answer of the status call.
C32_CheckStatusAnswers ==
    [][/\ (mCheck = "idle" /\ mCheck' # "idle"
            /\ ~Present(StoreGet(store, "authToken"))) =>
               /\ mCheck' = "returned"
               /\ checkResult' = "anonymous"
               /\ ~isAuthenticated'
               /\ store' = store
       /\ CheckReturns =>
            /\ checkResult' \in {"anonymous", "expired", "authenticated"}
            /\ checkResult' = "anonymous" =>
                   mCheck = "idle" /\ ~Present(StoreGet(store, "authToken"))
            /\ (mCheck = "thrown" \/ (mCheck = "status" /\ ~Is2xx(checkStatus'))) =>
                   /\ checkResult' = "expired"
                   /\ DOMAIN store' \cap StoreKeys = {}
                   /\ ~isAuthenticated'
            /\ checkResult' = "authenticated" =>
                   mCheck = "status" /\ Is2xx(checkStatus') /\ isAuthenticated'
            /\ checkResult' # "authenticated" => ~isAuthenticated']_vars

\* the status call of a logged-in session was answered 401
C32_Witness ==
    /\ mCheck = "returned"
    /\ checkResult = "expired"
    /\ checkStatus = Unauthorized
    /\ checkToken # Null
    /\ ~isAuthenticated
    /\ store = <<>>

\* no handler of the main process is awaiting a remote call or has a
\* catch block due
NoHandlerMidFlight ==
    /\ mLogin # "remote"
    /\ mLogout # "remote"
    /\ mCheck \notin {"refresh", "status", "thrown"}

\* C33: whenever no handler is mid-flight, isAuthenticated is true only if
\* an access token is present in the store.
C33_AuthenticatedHasToken ==
    NoHandlerMidFlight =>
        (isAuthenticated => Present(StoreGet(store, "authToken")))

\* auth-login returns to the renderer
LoginReturns == mLogin # "returned" /\ mLogin' = "returned"

\* C34: auth-login returns at once, with no call made, exactly when the
\* username or the password is missing, and whenever it returns anything
\* but success the store and isAuthenticated are as they were.
C34_FailedLoginChangesNothing ==
    [][LoginReturns =>
         /\ loginResult' \in {"required", "invalid", "failed", "success"}
         /\ mLogin = "idle" <=> loginResult' = "required"
         /\ loginResult' # "success" =>
                store' = store /\ isAuthenticated' = isAuthenticated]_vars

\* refreshAuthToken() of the debug module is called with no refresh token stored
DebugRefreshCalledWithout ==
    /\ debugAuth.pc = "idle"
    /\ debugAuth'.pc # "idle"
    /\ ~Truthy(debugAuth.refreshToken)

\* C35: in the debug module, refreshAuthToken() called with no stored
\* refresh token throws 'No refresh token available for token refresh',
\* issues no HTTP call and leaves the stored tokens as they were.
C35_DebugRefreshNeedsToken ==
    [][DebugRefreshCalledWithout =>
         /\ debugAuth'.pc = "returned"
         /\ debugAuth'.result = "No refresh token available for token refresh"
         /\ debugAuth'.posts = debugAuth.posts
         /\ debugAuth'.authToken = debugAuth.authToken
         /\ debugAuth'.refreshToken = debugAuth.refreshToken]_vars

\* the call threw while an access token, but no refresh token, was stored
C35_Witness ==
    /\ debugAuth.pc = "returned"
    /\ debugAuth.result = NoRefreshTokenMessage
    /\ debugAuth.authToken # Null
    /\ debugAuth.refreshToken = Null

====
